---- MODULE Spec2Model ----
(***************************************************************************)
(* A model of marv_node/node.py: the node identity (InputSpec.key,         *)
(* StreamSpec.key, Node.key, Node.genhash), the dependency graph built by  *)
(* Node.__init__ and Node.clone, and the generator Node.invoke, stepped    *)
(* one resume (next/send) at a time.                                       *)
(*                                                                         *)
(* Node objects live in `heap` (a sequence: the object id is the index);   *)
(* `input_specs` is the __marv_input_specs__ of each function.             *)
(* Python sets of nodes are sets of object ids whose membership test and   *)
(* insertion go through Keyed's equality (equal keys), as a Python set of  *)
(* Keyed objects does.                                                     *)
(***************************************************************************)
EXTENDS Integers, Sequences, FiniteSets, TLC

VARIABLES heap, result, inv, input_specs

vars == <<heap, result, inv, input_specs>>

---------------------------------------------------------------------------
(* Bounds of the model. *)

\* Node objects ever allocated in the graph specification.
MaxNodes == 4
\* Keyword arguments of one clone call.
MaxKw == 1
\* Elements of one foreach-plain axis.
MaxAxis == 2
\* Inputs declared on the node that is invoked.
MaxSpecs == 3
\* Non-sentinel values the driver answers to pulls in one invocation.
MaxPulls == 2
\* Requests the user routine yields in one invocation.
MaxRelay == 2
\* Node objects, the two sources included, and keyword arguments of one
\* clone call in the clone specification.
MaxCloneHeap == 4
MaxCloneKw == 2
\* Names that input() declarations use.
MaxInputs == 2
\* Inputs declared on the node that two invocations run at once.
MaxConcSpecs == 2
\* InputSpecs of one dict handed to genhash.
MaxHashed == 2

---------------------------------------------------------------------------
(* Values. *)

InputNames == <<"a", "b", "c", "d", "e">>

NameRank(name) == CHOOSE i \in DOMAIN InputNames : InputNames[i] = name

\* StreamSpec.name is None
NoneName == "<None>"

Namespace == "mod"

\* A plain python object bound to an input.
PlainValue(v) ==
    [kind |-> "plain", v |-> v, items |-> <<>>, node |-> 0, sname |-> NoneName]

\* A python float as a plain value: 1.0 == 1 holds, repr(1.0) is not repr(1).
FloatValue(v) ==
    [kind |-> "float", v |-> v, items |-> <<>>, node |-> 0, sname |-> NoneName]

\* x == y of two plain python values
PyEq(x, y) ==
    \/ x = y
    \/ x.kind \in {"plain", "float"} /\ y.kind \in {"plain", "float"} /\ x.v = y.v

\* A plain iterable bound to a foreach input.
ListValue(items) ==
    [kind |-> "list", v |-> 0, items |-> items, node |-> 0, sname |-> NoneName]

\* StreamSpec.__init__
StreamSpec(node, name) ==
    [kind |-> "stream", v |-> 0, items |-> <<>>, node |-> node, sname |-> name]

\* StreamSpec.args
StreamArgs(value) ==
    IF value.sname = NoneName THEN <<value.node>> ELSE <<value.node, value.sname>>

InputSpec(name, value, foreach) ==
    [name |-> name, value |-> value, foreach |-> foreach]

\* Node.key: '-'.join([specs_hash, fullname])
NodeKey(h, n) == [hash |-> h[n].specs_hash, fullname |-> h[n].fullname]

\* StreamSpec.key: (node.key,) or (node.key, name)
StreamKey(h, value) ==
    IF value.sname = NoneName
    THEN <<NodeKey(h, value.node)>>
    ELSE <<NodeKey(h, value.node), value.sname>>

\* InputSpec.key: (name, value.key or value, foreach)
SpecKey(h, spec) ==
    [name |-> spec.name,
     value |-> IF spec.value.kind = "stream"
               THEN [plain |-> PlainValue(0), key |-> StreamKey(h, spec.value)]
               ELSE [plain |-> spec.value, key |-> <<>>],
     foreach |-> spec.foreach]

\* Keyed.__eq__ on InputSpec: the key tuples are equal, component by component
SpecKeyEq(k1, k2) ==
    /\ k1.name = k2.name
    /\ k1.foreach = k2.foreach
    /\ k1.value.key = k2.value.key
    /\ PyEq(k1.value.plain, k2.value.plain)

\* Keyed ordering of two InputSpecs of one node: by key, whose first
\* component is the name, unique within a node.
KeyedLess(x, y) == NameRank(x.name) < NameRank(y.name)

\* sorted(specs.values())
RECURSIVE SortedSpecs(_)
SortedSpecs(specs) ==
    IF specs = <<>> THEN <<>>
    ELSE LET i == CHOOSE i \in DOMAIN specs :
                      \A j \in DOMAIN specs : j # i => KeyedLess(specs[i], specs[j])
             rest == [k \in 1..(Len(specs) - 1) |->
                          IF k < i THEN specs[k] ELSE specs[k + 1]]
         IN <<specs[i]>> \o SortedSpecs(rest)

\* genhash over specs.values() as stored, not sorted
genhash_Unsorted(h, specs) == [i \in DOMAIN specs |-> SpecKey(h, specs[i])]

\* Node.genhash: the digest of repr(tuple of the sorted specs' keys). The
\* digest is taken as injective and repr as telling apart whatever differs
\* in type or in value, so the hash is represented by the tuple of keys as
\* written: the key of a == 1 and the key of a == 1.0 are written differently.
genhash(h, specs) ==
    LET s == SortedSpecs(specs) IN [i \in DOMAIN s |-> SpecKey(h, s[i])]

\* Keyed.__eq__ / __hash__ on Node: equal keys.
KeyedEq(k1, k2) == k1 = k2

\* x in S, for a python set S of nodes and a node of key k
Member(h, k, S) == \E m \in S : KeyedEq(NodeKey(h, m), k)

\* S.add(n): an element equal to one already present is not added
SetAdd(h, S, n) == IF Member(h, NodeKey(h, n), S) THEN S ELSE S \cup {n}

Perms(S) ==
    {p \in [1..Cardinality(S) -> S] : \A i, j \in DOMAIN p : p[i] = p[j] => i = j}

---------------------------------------------------------------------------
(* Node.__init__ *)

\* self.deps = {x.value.node for x in self.specs.values() if StreamSpec}
RECURSIVE DepsUpTo(_, _, _)
DepsUpTo(h, specs, k) ==
    IF k = 0 THEN {}
    ELSE LET S == DepsUpTo(h, specs, k - 1)
         IN IF specs[k].value.kind = "stream"
            THEN SetAdd(h, S, specs[k].value.node)
            ELSE S

Deps(h, specs) == DepsUpTo(h, specs, Len(specs))

\* alldeps without the update
AllDepsChoices_Direct(h, deps) == {deps}

\* self.alldeps = deps.copy(); alldeps.update(x for dep in deps for x in
\* dep.alldeps): the sets are iterated in an arbitrary order, and of several
\* equal elements the one met first stays.
AllDepsChoices(h, deps) ==
    LET U == deps \cup UNION {h[d].alldeps : d \in deps}
    IN {S \in SUBSET U :
          /\ deps \subseteq S
          /\ \A x \in U : Member(h, NodeKey(h, x), S)
          /\ \A x, y \in S : KeyedEq(NodeKey(h, x), NodeKey(h, y)) => x = y}

\* the fields assigned before the edges are registered
NewNode(h, func, specs, alldeps) ==
    [func |-> func,
     fullname |-> <<Namespace, func>>,
     specs |-> specs,
     specs_hash |-> genhash(h, specs),
     group |-> \E i \in DOMAIN specs : specs[i].foreach,
     deps |-> Deps(h, specs),
     alldeps |-> alldeps,
     consumers |-> {},
     dependent |-> {},
     built |-> FALSE]

\* assert self not in dep.consumers
ConsumerCheck(h, self, dep) == ~Member(h, NodeKey(h, self), h[dep].consumers)

\* assert self not in dep.dependent
DependentCheck(h, self, dep) == ~Member(h, NodeKey(h, self), h[dep].dependent)

\* for dep in self.deps: assert ...; dep.consumers.add(self)
RECURSIVE AddConsumers(_, _, _, _)
AddConsumers(h, self, order, i) ==
    IF i > Len(order) THEN [heap |-> h, ok |-> TRUE]
    ELSE IF ~ConsumerCheck(h, self, order[i]) THEN [heap |-> h, ok |-> FALSE]
    ELSE AddConsumers([h EXCEPT ![order[i]].consumers = SetAdd(h, @, self)],
                      self, order, i + 1)

\* dep.dependent.add(dep)
RECURSIVE AddDependent_Dep(_, _, _, _)
AddDependent_Dep(h, self, order, i) ==
    IF i > Len(order) THEN [heap |-> h, ok |-> TRUE]
    ELSE IF ~DependentCheck(h, self, order[i]) THEN [heap |-> h, ok |-> FALSE]
    ELSE AddDependent_Dep([h EXCEPT ![order[i]].dependent = SetAdd(h, @, order[i])],
                          self, order, i + 1)

\* for dep in self.alldeps: assert ...; dep.dependent.add(self)
RECURSIVE AddDependent(_, _, _, _)
AddDependent(h, self, order, i) ==
    IF i > Len(order) THEN [heap |-> h, ok |-> TRUE]
    ELSE IF ~DependentCheck(h, self, order[i]) THEN [heap |-> h, ok |-> FALSE]
    ELSE AddDependent([h EXCEPT ![order[i]].dependent = SetAdd(h, @, self)],
                      self, order, i + 1)

\* Node.__init__ with its two assert statements stripped
NodeInit_NoAsserts(h, func, specs, alldeps, order1, order2) ==
    LET self == Len(h) + 1
        h0 == Append(h, NewNode(h, func, specs, alldeps))
        h1 == [n \in DOMAIN h0 |->
                 [h0[n] EXCEPT
                    !.consumers = IF n \in h0[self].deps
                                  THEN SetAdd(h0, @, self) ELSE @,
                    !.dependent = IF n \in alldeps
                                  THEN SetAdd(h0, @, self) ELSE @]]
    IN [heap |-> [h1 EXCEPT ![self].built = TRUE], status |-> "ok", node |-> self]

\* Node.__init__ on a fresh object, the sets iterated in the orders given.
\* A failed construction leaves its object behind only where an edge
\* registered before the failure still refers to it.
NodeInit(h, func, specs, alldeps, order1, order2) ==
    LET self == Len(h) + 1
        h0 == Append(h, NewNode(h, func, specs, alldeps))
        r1 == AddConsumers(h0, self, order1, 1)
        r2 == AddDependent(r1.heap, self, order2, 1)
    IN IF ~r1.ok
       THEN [heap |-> IF r1.heap = h0 THEN h ELSE r1.heap,
             status |-> "AssertionError", node |-> 0]
       ELSE IF ~r2.ok
       THEN [heap |-> IF r2.heap = h0 THEN h ELSE r2.heap,
             status |-> "AssertionError", node |-> 0]
       ELSE [heap |-> [r2.heap EXCEPT ![self].built = TRUE],
             status |-> "ok", node |-> self]

\* the alldeps of order[1], ..., order[k], one after the other
RECURSIVE PathsUpTo(_, _, _)
PathsUpTo(h, order, k) ==
    IF k = 0 THEN <<>>
    ELSE PathsUpTo(h, order, k - 1)
         \o (CHOOSE p \in Perms(h[order[k]].alldeps) : TRUE)

\* the dependent loop going over the deps and then over the alldeps of each
\* dep in turn, a node met once for every path to it
Constructions_PerPath(h, func, specs) ==
    LET deps == Deps(h, specs)
    IN {NodeInit(h, func, specs, alldeps, order1, order1 \o PathsUpTo(h, order1, Len(order1))) :
          <<alldeps, order1>> \in
             UNION {{<<S, o1>> : o1 \in Perms(deps)} : S \in AllDepsChoices(h, deps)}}

\* every way Node(func, specs=specs) can end from heap h
Constructions(h, func, specs) ==
    LET deps == Deps(h, specs)
    IN {NodeInit(h, func, specs, alldeps, order1, order2) :
          <<alldeps, order1, order2>> \in
             UNION {{<<S, o1, o2>> : o1 \in Perms(deps), o2 \in Perms(S)} :
                       S \in AllDepsChoices(h, deps)}}

---------------------------------------------------------------------------
(* Node.invoke: one generator object, the driver's requests and answers. *)

Val(kind, v, node, sname) ==
    [kind |-> kind, v |-> v, items |-> <<>>, node |-> node, sname |-> sname]

\* None
NoneVal == Val("none", 0, 0, NoneName)

\* the driver's answers: a stream handle, a logger, a pulled message, the
\* answer to a fork, an answer to a request of the user routine
Handle(args) == Val("handle", 0, args[1], IF Len(args) = 1 THEN NoneName ELSE args[2])
Logger == Val("logger", 0, 0, NoneName)
Msg(j) == Val("msg", j, 0, NoneName)
Answer(j) == Val("answer", j, 0, NoneName)

EmptyDict == [n \in {} |-> NoneVal]

\* d[name] = value
DictSet(d, name, value) ==
    [n \in DOMAIN d \cup {name} |-> IF n = name THEN value ELSE d[n]]

\* d.update(pairs), pairs a sequence of (name, value)
RECURSIVE DictUpdate(_, _)
DictUpdate(d, pairs) ==
    IF pairs = <<>> THEN d
    ELSE DictUpdate(DictSet(d, pairs[1][1], pairs[1][2]), Tail(pairs))

\* dict(pairs)
Dict(pairs) == DictUpdate(EmptyDict, pairs)

RECURSIVE Flatten(_)
Flatten(seqs) == IF seqs = <<>> THEN <<>> ELSE seqs[1] \o Flatten(Tail(seqs))

\* itertools.product(*axes): the last axis varies fastest; product() is (())
RECURSIVE Product(_)
Product(axes) ==
    IF axes = <<>> THEN << <<>> >>
    ELSE LET rest == Product(Tail(axes))
         IN Flatten([i \in DOMAIN axes[1] |->
                        [j \in DOMAIN rest |-> <<axes[1][i]>> \o rest[j]]])

\* [[(k, x) for x in v] for k, v in foreach_plain]
Axes(foreach_plain) ==
    [a \in DOMAIN foreach_plain |->
        [j \in DOMAIN foreach_plain[a][2].items |->
            <<foreach_plain[a][1], PlainValue(foreach_plain[a][2].items[j])>>]]

\* the requests of marv_node.io, and a request of the user routine
Request(type, args, handle, label, inputs, group, origin) ==
    [type |-> type, args |-> args, handle |-> handle, label |-> label,
     inputs |-> inputs, group |-> group, origin |-> origin]

get_stream(args) == Request("get_stream", args, NoneVal, "", EmptyDict, FALSE, "invoke")
get_logger == Request("get_logger", <<>>, NoneVal, "", EmptyDict, FALSE, "invoke")
pull(handle) == Request("pull", <<>>, handle, "", EmptyDict, FALSE, "invoke")
fork(name, inputs, group) == Request("fork", <<>>, NoneVal, name, inputs, group, "invoke")
UserRequest(j) == Request("user", <<j>>, NoneVal, "", EmptyDict, FALSE, "func")

\* the user routine self.func: how often it was called, the inputs of the
\* last call, what the running instance has yielded and has been sent
NoGen == [starts |-> 0, kwargs |-> EmptyDict, reqs |-> <<>>, sent |-> <<>>]

\* no generator object exists
NoInvocation ==
    [pc |-> "none", self |-> 0, given |-> FALSE, inputs |-> EmptyDict, k |-> 0,
     common |-> <<>>, foreach_plain |-> <<>>, foreach_stream |-> <<>>,
     log |-> NoneVal, cross |-> <<>>, name |-> "", stream |-> NoneVal,
     value |-> NoneVal, idx |-> 0, i |-> 0, ci |-> 0, out |-> <<>>, ins |-> <<>>, gen |-> NoGen]

\* yield request
Yield(st, pc, request) == [st EXCEPT !.pc = pc, !.out = Append(@, request)]

\* what gen.send(send) does: the routine yields its next request, or returns
GenSteps(st) ==
    IF Len(st.gen.reqs) < MaxRelay THEN {"yield", "return"} ELSE {"return"}

\* Relay resuming the routine with None whatever the driver sent
Relay_DropSend(st, send, step) ==
    LET g == [st.gen EXCEPT !.sent = Append(@, NoneVal)]
    IN IF step = "yield"
       THEN Yield([st EXCEPT !.gen = [g EXCEPT !.reqs = Append(@, UserRequest(Len(@) + 1))]],
                  "relay", UserRequest(Len(g.reqs) + 1))
       ELSE [st EXCEPT !.pc = "StopIteration", !.gen = g]

\* send = yield gen.send(send), up to the yield: a request of the routine is
\* passed on; its StopIteration is not caught and ends the generator
Relay(st, send, step) ==
    LET g == [st.gen EXCEPT !.sent = Append(@, send)]
    IN IF step = "yield"
       THEN Yield([st EXCEPT !.gen = [g EXCEPT !.reqs = Append(@, UserRequest(Len(@) + 1))]],
                  "relay", UserRequest(Len(g.reqs) + 1))
       ELSE [st EXCEPT !.pc = "StopIteration", !.gen = g]

\* the else branch: inputs = dict(common) unless given; gen = self.func(**inputs);
\* send = None; the first gen.send(send)
PlainExecution(st, step) ==
    LET inputs == IF st.given THEN st.inputs ELSE Dict(st.common)
        g == [starts |-> st.gen.starts + 1, kwargs |-> inputs,
              reqs |-> <<>>, sent |-> <<>>]
    IN Relay([st EXCEPT !.inputs = inputs, !.gen = g], NoneVal, step)

\* PlainFork without inputs.update(common)
PlainFork_NoCommon(st) ==
    IF st.i < Len(st.cross)
    THEN Yield(st, "fork_plain", fork(ToString(st.i), Dict(st.cross[st.i + 1]), FALSE))
    ELSE [st EXCEPT !.pc = "done"]

\* for i, inputs in enumerate(cross): ... yield fork(str(i), inputs, False)
PlainFork(st) ==
    IF st.i < Len(st.cross)
    THEN Yield(st, "fork_plain",
               fork(ToString(st.i),
                    DictUpdate(Dict(st.cross[st.i + 1]), st.common), FALSE))
    ELSE [st EXCEPT !.pc = "done"]

\* StreamFork without inputs[name] = value
StreamFork_NoName(st) ==
    IF st.ci <= Len(st.cross)
    THEN Yield([st EXCEPT !.i = st.idx, !.idx = st.idx + 1], "fork_stream",
               fork(ToString(st.idx),
                    DictUpdate(Dict(st.cross[st.ci]), st.common), FALSE))
    ELSE Yield(st, "pull", pull(st.stream))

\* StreamFork with the label counted from 0 for every pulled value
StreamFork_LabelPerValue(st) ==
    IF st.ci <= Len(st.cross)
    THEN Yield([st EXCEPT !.i = st.ci - 1, !.idx = st.idx + 1], "fork_stream",
               fork(ToString(st.ci - 1),
                    DictSet(DictUpdate(Dict(st.cross[st.ci]), st.common),
                            st.name, st.value),
                    FALSE))
    ELSE Yield(st, "pull", pull(st.stream))

\* for inputs in cross: ... i = idx.next(); yield fork(str(i), inputs, False);
\* after the last one, the next value = yield pull(stream)
StreamFork(st) ==
    IF st.ci <= Len(st.cross)
    THEN Yield([st EXCEPT !.i = st.idx, !.idx = st.idx + 1], "fork_stream",
               fork(ToString(st.idx),
                    DictSet(DictUpdate(Dict(st.cross[st.ci]), st.common),
                            st.name, st.value),
                    FALSE))
    ELSE Yield(st, "pull", pull(st.stream))

\* the decision taken on foreach_stream alone
Fanout_StreamOnly(st, step) ==
    IF st.foreach_stream # <<>>
    THEN Yield(st, "get_logger", get_logger)
    ELSE PlainExecution(st, step)

\* if foreach_plain or foreach_stream: log = yield get_logger() ... else: ...
Fanout(st, step) ==
    IF st.foreach_plain # <<>> \/ st.foreach_stream # <<>>
    THEN Yield(st, "get_logger", get_logger)
    ELSE PlainExecution(st, step)

\* for spec in self.specs.values(), from the k-th spec on, up to the next
\* yield: value = yield get_stream(*spec.value.args) for a StreamSpec,
\* target.append((spec.name, value)) for a plain value
RECURSIVE Resolve(_, _, _, _)
Resolve(specs, st, k, step) ==
    IF k > Len(specs) THEN Fanout(st, step)
    ELSE IF specs[k].value.kind = "stream"
    THEN Yield([st EXCEPT !.k = k], "get_stream", get_stream(StreamArgs(specs[k].value)))
    ELSE IF specs[k].foreach
    THEN Resolve(specs,
                 [st EXCEPT !.foreach_plain = Append(@, <<specs[k].name, specs[k].value>>)],
                 k + 1, step)
    ELSE Resolve(specs,
                 [st EXCEPT !.common = Append(@, <<specs[k].name, specs[k].value>>)],
                 k + 1, step)

\* FirstNext resolving the declared inputs also when inputs are given
FirstNext_AlwaysResolve(specs, st, step) == Resolve(specs, st, 1, step)

\* the generator's first next(): from the top of invoke to its first yield
FirstNext(specs, st, step) ==
    IF st.given THEN Fanout(st, step) ELSE Resolve(specs, st, 1, step)

\* AfterGetStream with the loop passing over the spec that follows
AfterGetStream_Skip(specs, st, value, step) ==
    LET spec == specs[st.k]
    IN Resolve(specs,
               IF spec.foreach
               THEN [st EXCEPT !.foreach_stream = Append(@, <<spec.name, value>>)]
               ELSE [st EXCEPT !.common = Append(@, <<spec.name, value>>)],
               st.k + 2, step)

\* resumed at value = yield get_stream(...): the handle goes to
\* foreach_stream or common, and the loop goes on
AfterGetStream(specs, st, value, step) ==
    LET spec == specs[st.k]
    IN Resolve(specs,
               IF spec.foreach
               THEN [st EXCEPT !.foreach_stream = Append(@, <<spec.name, value>>)]
               ELSE [st EXCEPT !.common = Append(@, <<spec.name, value>>)],
               st.k + 1, step)

\* the assertion left out
SingleStreamCheck_Off(st) == TRUE

\* assert len(foreach_stream) == 1
SingleStreamCheck(st) == Len(st.foreach_stream) = 1

\* resumed at log = yield get_logger(): cross = product(...), then the
\* first pull of the stream loop or the first fork of the plain loop
AfterGetLogger(st, log) ==
    LET st1 == [st EXCEPT !.log = log, !.cross = Product(Axes(st.foreach_plain))]
    IN IF st.foreach_stream # <<>>
       THEN IF ~SingleStreamCheck(st)
            THEN [st1 EXCEPT !.pc = "AssertionError"]
            ELSE Yield([st1 EXCEPT !.name = st.foreach_stream[1][1],
                                   !.stream = st.foreach_stream[1][2],
                                   !.idx = 0],
                       "pull", pull(st.foreach_stream[1][2]))
       ELSE PlainFork([st1 EXCEPT !.i = 0])

\* AfterPull without the test for None
AfterPull_NoSentinel(st, value) == StreamFork([st EXCEPT !.value = value, !.ci = 1])

\* resumed at value = yield pull(stream): None ends the loop
AfterPull(st, value) ==
    IF value = NoneVal
    THEN [st EXCEPT !.value = value, !.pc = "done"]
    ELSE StreamFork([st EXCEPT !.value = value, !.ci = 1])

\* resumed at the yield fork(...) of the stream loop
AfterStreamFork(st) == StreamFork([st EXCEPT !.ci = st.ci + 1])

\* resumed at the yield fork(...) of the plain loop
AfterPlainFork(st) == PlainFork([st EXCEPT !.i = st.i + 1])

\* the driver sends a value into the generator
Sent(st, value) == [st EXCEPT !.ins = Append(@, value)]

---------------------------------------------------------------------------
(* The graph specification: nodes are declared and cloned. *)

Funcs == {"f"}

GraphNames == {"a", "b"}

Built(h) == {n \in DOMAIN h : h[n].built}

\* the values an input of a declared node is bound to
GraphValues(h) == {PlainValue(0)} \cup {StreamSpec(n, NoneName) : n \in Built(h)}

\* the specs of one declaration: distinct names, in declaration order
GraphSpecs(h) ==
    UNION {{s \in [1..k -> {InputSpec(name, value, FALSE) :
                               name \in GraphNames, value \in GraphValues(h)}] :
               \A i, j \in 1..k : s[i].name = s[j].name => i = j} :
           k \in 0..Cardinality(GraphNames)}

\* a keyword value of clone: a plain object or a Node
NodeArg(n) == [kind |-> "node", v |-> 0, items |-> <<>>, node |-> n, sname |-> NoneName]

CloneValues(h) == {PlainValue(1)} \cup {NodeArg(n) : n \in Built(h)}

\* the keyword arguments of one clone call: a set of name=value, names
\* distinct, at most max of them
CloneKws(h, max) ==
    {kw \in SUBSET {[name |-> name, value |-> value] :
                       name \in GraphNames, value \in CloneValues(h)} :
        /\ Cardinality(kw) <= max
        /\ \A x, y \in kw : x.name = y.name => x = y}

NoResult ==
    [op |-> "none", status |-> "ok", node |-> 0, func |-> "", specs |-> <<>>,
     src |-> 0, over |-> {}, before |-> 0, hash |-> <<>>]

\* the generator objects the driver holds
Invocations == {1, 2}

\* the functions that are decorated: Funcs and one more
InputFuncs == Funcs \cup {"g"}

\* no function has a __marv_input_specs__ (taken by node() as no specs)
NoInputSpecs == [func \in InputFuncs |-> <<>>]

InitGraph ==
    /\ heap = <<>>
    /\ result = NoResult
    /\ inv = [g \in Invocations |-> NoInvocation]
    /\ input_specs = NoInputSpecs

\* A call that failed and left the heap as it was is not gone on from: the
\* calls that may follow it are those that may follow the state it began in.
Continuing == result.status = "ok" \/ Len(heap) > result.before

\* node(...)(func): Node(func, specs=specs), while fewer than limit objects exist
ConstructOf(limit) ==
    /\ Len(heap) < limit
    /\ Continuing
    /\ \E func \in Funcs, specs \in GraphSpecs(heap) :
         \E r \in Constructions(heap, func, specs) :
            /\ heap' = r.heap
            /\ result' = [op |-> "construct", status |-> r.status, node |-> r.node,
                          func |-> func, specs |-> specs, src |-> 0, over |-> {},
                          before |-> Len(heap), hash |-> <<>>]
    /\ UNCHANGED <<inv, input_specs>>

\* InputSpec.clone
InputSpecClone(spec, value) ==
    InputSpec(spec.name,
              IF value.kind = "node" THEN StreamSpec(value.node, NoneName) ELSE value,
              spec.foreach)

\* the comprehension cloning every spec once an override is given
CloneSpecs_All(specs, kw) ==
    [i \in DOMAIN specs |->
        IF kw # {}
        THEN InputSpecClone(specs[i], (CHOOSE e \in kw : TRUE).value)
        ELSE specs[i]]

\* the dict comprehension of Node.clone, in the order of self.specs.values()
CloneSpecs(specs, kw) ==
    [i \in DOMAIN specs |->
        IF \E e \in kw : e.name = specs[i].name
        THEN InputSpecClone(specs[i],
                            (CHOOSE e \in kw : e.name = specs[i].name).value)
        ELSE specs[i]]

\* kw taken as empty after the pops
CloneLeftover_None(specs, kw) == {}

\* what is left of kw after the pops
CloneLeftover(specs, kw) ==
    {e \in kw : \A i \in DOMAIN specs : specs[i].name # e.name}

\* the orders a dict of these specs may be iterated in
DictOrders(specs) ==
    {[i \in DOMAIN specs |-> specs[p[i]]] : p \in Perms(DOMAIN specs)}

KwNames(kw) == {e.name : e \in kw}

Construct == ConstructOf(MaxNodes)

\* Node.clone(**kw), while fewer than limit objects exist
CloneOf(limit, maxkw) ==
    /\ Len(heap) < limit
    /\ Continuing
    /\ \E n \in Built(heap), kw \in CloneKws(heap, maxkw) :
         IF CloneLeftover(heap[n].specs, kw) # {}
         THEN /\ heap' = heap
              /\ result' = [op |-> "clone", status |-> "AssertionError", node |-> 0,
                            func |-> heap[n].func, specs |-> <<>>, src |-> n,
                            over |-> KwNames(kw), before |-> Len(heap), hash |-> <<>>]
         ELSE \E specs \in DictOrders(CloneSpecs(heap[n].specs, kw)) :
              \E r \in Constructions(heap, heap[n].func, specs) :
                 /\ heap' = r.heap
                 /\ result' = [op |-> "clone", status |-> r.status, node |-> r.node,
                               func |-> heap[n].func, specs |-> specs, src |-> n,
                               over |-> KwNames(kw), before |-> Len(heap), hash |-> <<>>]
    /\ UNCHANGED <<inv, input_specs>>

Clone == CloneOf(MaxNodes, MaxKw)

NextGraph == Construct \/ Clone

SpecGraph == InitGraph /\ [][NextGraph]_vars

---------------------------------------------------------------------------
(* The invocation specification: a node over two source nodes is declared, *)
(* and the driver runs one invocation of it.                               *)

\* two source nodes without inputs
Sources ==
    NodeInit(NodeInit(<<>>, "src1", <<>>, {}, <<>>, <<>>).heap,
             "src2", <<>>, {}, <<>>, <<>>).heap

\* the elements of the foreach-plain axis of the i-th input, n of them
Axis(i, n) == [j \in 1..n |-> 10 * i + j]

\* what the i-th input of the invoked node may be: a plain value, a stream
\* of a source, a foreach over a plain list, a foreach over a stream
InvokeInputs(i) ==
    {InputSpec(InputNames[i], PlainValue(100 + i), FALSE)}
    \cup {InputSpec(InputNames[i], StreamSpec(n, NoneName), fe) :
             n \in DOMAIN Sources, fe \in BOOLEAN}
    \cup {InputSpec(InputNames[i], StreamSpec(1, "s"), FALSE)}
    \cup {InputSpec(InputNames[i], ListValue(Axis(i, n)), TRUE) : n \in 0..MaxAxis}

\* the specs of the invoked node: up to max inputs
InvokeSpecsUpTo(max) ==
    UNION {{s \in [1..k -> UNION {InvokeInputs(i) : i \in 1..k}] :
               \A i \in 1..k : s[i] \in InvokeInputs(i)} : k \in 0..max}

InvokeSpecs == InvokeSpecsUpTo(MaxSpecs)

\* the explicit inputs a driver hands to invoke: every name bound
Explicit(specs) ==
    [n \in {specs[i].name : i \in DOMAIN specs} |-> PlainValue(200 + NameRank(n))]

InitInvoke ==
    /\ heap = Sources
    /\ result = NoResult
    /\ inv = [g \in Invocations |-> NoInvocation]
    /\ input_specs = NoInputSpecs

\* node(...)(func) for the node that is going to be invoked
DeclareOf(shapes) ==
    /\ Len(heap) = Len(Sources)
    /\ \E specs \in shapes :
         \E r \in Constructions(heap, "f", specs) :
            /\ heap' = r.heap
            /\ result' = [op |-> "construct", status |-> r.status, node |-> r.node,
                          func |-> "f", specs |-> specs, src |-> 0, over |-> {},
                          before |-> Len(heap), hash |-> <<>>]
    /\ UNCHANGED <<inv, input_specs>>

Declare == DeclareOf(InvokeSpecs)

\* the node Declare built
Declared == {n \in Built(heap) : n > Len(Sources)}

\* node.invoke(inputs): the generator object is made, none of its code runs
Invoke(g) ==
    /\ inv[g].pc = "none"
    /\ \E n \in Declared, given \in BOOLEAN :
         inv' = [inv EXCEPT ![g] =
                    [NoInvocation EXCEPT
                        !.pc = "created", !.self = n, !.given = given,
                        !.inputs = IF given THEN Explicit(heap[n].specs)
                                   ELSE EmptyDict]]
    /\ UNCHANGED <<heap, result, input_specs>>

SpecsOf(g) == heap[inv[g].self].specs

\* the first next() on the generator
Start(g) ==
    /\ inv[g].pc = "created"
    /\ \E step \in GenSteps(inv[g]) :
         inv' = [inv EXCEPT ![g] = FirstNext(SpecsOf(g), Sent(@, NoneVal), step)]
    /\ UNCHANGED <<heap, result, input_specs>>

\* the driver answers get_stream with the handle of the stream asked for
SendHandle(g) ==
    /\ inv[g].pc = "get_stream"
    /\ \E step \in GenSteps(inv[g]) :
         LET handle == Handle(inv[g].out[Len(inv[g].out)].args)
         IN inv' = [inv EXCEPT ![g] =
                       AfterGetStream(SpecsOf(g), Sent(@, handle), handle, step)]
    /\ UNCHANGED <<heap, result, input_specs>>

\* the driver answers get_logger
SendLogger(g) ==
    /\ inv[g].pc = "get_logger"
    /\ inv' = [inv EXCEPT ![g] = AfterGetLogger(Sent(@, Logger), Logger)]
    /\ UNCHANGED <<heap, result, input_specs>>

\* the messages pulled so far
Pulled(st) == {j \in DOMAIN st.ins : st.ins[j].kind = "msg"}

\* the driver answers pull: the next message of the stream, or None at its end
SendPulled(g) ==
    /\ inv[g].pc = "pull"
    /\ \E value \in {NoneVal} \cup
                     (IF Cardinality(Pulled(inv[g])) < MaxPulls
                      THEN {Msg(Cardinality(Pulled(inv[g])) + 1)} ELSE {}) :
         inv' = [inv EXCEPT ![g] = AfterPull(Sent(@, value), value)]
    /\ UNCHANGED <<heap, result, input_specs>>

\* the fork counter kept in one place for all invocations of the node
AckStreamFork_SharedIdx(g) ==
    /\ inv[g].pc = "fork_stream"
    /\ LET idx == CHOOSE i \in {inv[h].idx : h \in Invocations} :
                      \A h \in Invocations : inv[h].idx <= i
       IN inv' = [inv EXCEPT ![g] = AfterStreamFork(Sent([@ EXCEPT !.idx = idx], NoneVal))]
    /\ UNCHANGED <<heap, result, input_specs>>

\* the driver resumes a fork of the stream loop
AckStreamFork(g) ==
    /\ inv[g].pc = "fork_stream"
    /\ inv' = [inv EXCEPT ![g] = AfterStreamFork(Sent(@, NoneVal))]
    /\ UNCHANGED <<heap, result, input_specs>>

\* the driver resumes a fork of the plain loop
AckPlainFork(g) ==
    /\ inv[g].pc = "fork_plain"
    /\ inv' = [inv EXCEPT ![g] = AfterPlainFork(Sent(@, NoneVal))]
    /\ UNCHANGED <<heap, result, input_specs>>

\* the driver answers a request of the user routine
SendAnswer(g) ==
    /\ inv[g].pc = "relay"
    /\ \E step \in GenSteps(inv[g]) :
         LET value == Answer(Len(inv[g].gen.reqs))
         IN inv' = [inv EXCEPT ![g] = Relay(Sent(@, value), value, step)]
    /\ UNCHANGED <<heap, result, input_specs>>

NextInvoke ==
    \/ Declare
    \/ Invoke(1)
    \/ Start(1)
    \/ SendHandle(1)
    \/ SendLogger(1)
    \/ SendPulled(1)
    \/ AckStreamFork(1)
    \/ AckPlainFork(1)
    \/ SendAnswer(1)

SpecInvoke == InitInvoke /\ [][NextInvoke]_vars

---------------------------------------------------------------------------
(* The concurrent specification: the driver runs two invocations of one    *)
(* node, resuming either generator in any order.                           *)

InitConc ==
    /\ heap = Sources
    /\ result = NoResult
    /\ inv = [g \in Invocations |-> NoInvocation]
    /\ input_specs = NoInputSpecs

DeclareShared == DeclareOf(InvokeSpecsUpTo(MaxConcSpecs))

\* one step of the g-th invocation
Resume(g) ==
    \/ Invoke(g)
    \/ Start(g)
    \/ SendHandle(g)
    \/ SendLogger(g)
    \/ SendPulled(g)
    \/ AckStreamFork(g)
    \/ AckPlainFork(g)
    \/ SendAnswer(g)

NextConc == DeclareShared \/ Resume(1) \/ Resume(2)

SpecConc == InitConc /\ [][NextConc]_vars

---------------------------------------------------------------------------
(* The clone specification: nodes over the two sources are declared, and   *)
(* cloned with up to MaxCloneKw keywords.                                  *)

InitClone ==
    /\ heap = Sources
    /\ result = NoResult
    /\ inv = [g \in Invocations |-> NoInvocation]
    /\ input_specs = NoInputSpecs

DeclareOver == ConstructOf(MaxCloneHeap)

CloneKw == CloneOf(MaxCloneHeap, MaxCloneKw)

NextClone == DeclareOver \/ CloneKw

SpecClone == InitClone /\ [][NextClone]_vars

---------------------------------------------------------------------------
(* The declaration specification: functions are decorated with input().    *)

DeclNames == {InputNames[i] : i \in 1..MaxInputs}

\* the default= and foreach= arguments of input(): None, a plain object, a
\* plain iterable, a Node
ArgValues == {NoneVal, PlainValue(1), ListValue(<<1, 2>>), NodeArg(1)}

\* assert default is None or foreach is None
InputArgsCheck(default, foreach) == default = NoneVal \/ foreach = NoneVal

\* input(name, default, foreach) up to def deco: the InputSpec
InputDecl(name, default, foreach) ==
    LET value == IF foreach # NoneVal THEN foreach ELSE default
    IN InputSpec(name,
                 IF value.kind = "node" THEN StreamSpec(value.node, NoneName) ELSE value,
                 foreach # NoneVal)

\* deco without the test for the name: specs[spec.name] = spec
Deco_Overwrite(specs, spec) ==
    IF \E i \in DOMAIN specs : specs[i].name = spec.name
    THEN [status |-> "ok",
          specs |-> [i \in DOMAIN specs |->
                        IF specs[i].name = spec.name THEN spec ELSE specs[i]]]
    ELSE [status |-> "ok", specs |-> Append(specs, spec)]

\* deco(func) on the OrderedDict specs of func
Deco(specs, spec) ==
    IF \E i \in DOMAIN specs : specs[i].name = spec.name
    THEN [status |-> "InputNameCollision", specs |-> specs]
    ELSE [status |-> "ok", specs |-> Append(specs, spec)]

InitInput ==
    /\ heap = Sources
    /\ result = NoResult
    /\ inv = [g \in Invocations |-> NoInvocation]
    /\ input_specs = NoInputSpecs

\* input(name, default, foreach)(func)
Input ==
    /\ \E func \in InputFuncs, name \in DeclNames,
          default \in ArgValues \ {ListValue(<<1, 2>>)},
          foreach \in ArgValues \ {PlainValue(1)} :
          IF ~InputArgsCheck(default, foreach)
          THEN /\ input_specs' = input_specs
               /\ result' = [NoResult EXCEPT !.op = "input", !.func = func,
                                              !.status = "AssertionError"]
          ELSE LET spec == InputDecl(name, default, foreach)
                   r == Deco(input_specs[func], spec)
               IN /\ input_specs' = [input_specs EXCEPT ![func] = r.specs]
                  /\ result' = [NoResult EXCEPT !.op = "input", !.func = func,
                                                 !.status = r.status,
                                                 !.specs = <<spec>>]
    /\ UNCHANGED <<heap, inv>>

NextInput == Input

SpecInput == InitInput /\ [][NextInput]_vars

---------------------------------------------------------------------------
(* The identity specification: genhash is applied to dicts of InputSpecs.  *)

HashNames == {InputNames[i] : i \in 1..MaxHashed}

\* the values of the hashed specs: 1, 1.0, 2, and streams of the sources
HashValues ==
    {PlainValue(1), FloatValue(1), PlainValue(2), StreamSpec(1, "s")}
    \cup {StreamSpec(n, NoneName) : n \in DOMAIN Sources}

\* the dicts of InputSpecs, as the sequence of their values(): names distinct
HashSpecs ==
    UNION {{s \in [1..k -> {InputSpec(name, value, fe) :
                               name \in HashNames, value \in HashValues,
                               fe \in BOOLEAN}] :
               \A i, j \in 1..k : s[i].name = s[j].name => i = j} :
           k \in 0..MaxHashed}

InitHash ==
    /\ heap = Sources
    /\ result = NoResult
    /\ inv = [g \in Invocations |-> NoInvocation]
    /\ input_specs = NoInputSpecs

\* Node.genhash(specs): a static method, a function of its argument alone,
\* so one call from the initial state is every call
Genhash ==
    /\ result = NoResult
    /\ \E specs \in HashSpecs :
          result' = [NoResult EXCEPT !.op = "genhash", !.specs = specs,
                                     !.hash = genhash(heap, specs)]
    /\ UNCHANGED <<heap, inv, input_specs>>

NextHash == Genhash

SpecHash == InitHash /\ [][NextHash]_vars

---------------------------------------------------------------------------
(* What the claims are stated with. *)

\* the requests of a given type among those the generator has yielded
Emitted(st, type) == SelectSeq(st.out, LAMBDA r : r.type = type)

\* the requests invoke itself has made, as opposed to those it relays
OwnRequests(st) == SelectSeq(st.out, LAMBDA r : r.origin = "invoke")

ForeachPlain(specs) ==
    {i \in DOMAIN specs : specs[i].foreach /\ specs[i].value.kind = "list"}

ForeachStream(specs) ==
    {i \in DOMAIN specs : specs[i].foreach /\ specs[i].value.kind = "stream"}

Streams(specs) == {i \in DOMAIN specs : specs[i].value.kind = "stream"}

\* s1 * ... * sk over the foreach-plain axes of the specs numbered up to k
RECURSIVE Combinations(_, _)
Combinations(specs, k) ==
    IF k = 0 THEN 1
    ELSE IF k \in ForeachPlain(specs)
    THEN Len(specs[k].value.items) * Combinations(specs, k - 1)
    ELSE Combinations(specs, k - 1)

\* what a non-foreach input is bound to: its plain value, or the handle the
\* driver gave for its stream
CommonBinding(spec) ==
    IF spec.value.kind = "stream" THEN Handle(StreamArgs(spec.value)) ELSE spec.value

\* the invocation is in Plain-Execution: the user routine has been called
PlainExecuting(st) == st.gen.starts > 0

---------------------------------------------------------------------------
(* C1: under Plain-Execution the invocation never terminates on its own:   *)
(* once the user routine has been called, the generator of invoke is       *)
(* suspended at a relayed request, whatever the routine does.              *)
C1_NeverTerminates ==
    \A g \in Invocations : PlainExecuting(inv[g]) => inv[g].pc = "relay"

(* C2: without explicit inputs, with foreach-plain axes of sizes s1..sk and *)
(* no foreach-stream input, invoke emits s1*...*sk forks labelled 0, 1, ... *)
(* in emission order, each with the group flag False and every common       *)
(* binding, and is finished after the last of them.                         *)
C2_FanoutPlain ==
    \A g \in Invocations :
       LET st == inv[g]
           specs == SpecsOf(g)
           forks == Emitted(st, "fork")
           total == Combinations(specs, Len(specs))
       IN (st.pc # "none" /\ ~st.given
              /\ ForeachPlain(specs) # {} /\ ForeachStream(specs) = {})
          => /\ st.pc \in {"created", "get_stream", "get_logger", "fork_plain", "done"}
             /\ Emitted(st, "pull") = <<>>
             /\ Len(forks) <= total
             /\ st.pc = "done" => Len(forks) = total
             /\ st.pc = "fork_plain" => st.out[Len(st.out)].type = "fork"
             /\ \A j \in DOMAIN forks :
                   /\ forks[j].label = ToString(j - 1)
                   /\ forks[j].group = FALSE
                   /\ \A i \in DOMAIN specs :
                         ~specs[i].foreach
                         => /\ specs[i].name \in DOMAIN forks[j].inputs
                            /\ forks[j].inputs[specs[i].name] = CommonBinding(specs[i])

C2_Witness ==
    LET st == inv[1]
        specs == SpecsOf(1)
    IN /\ st.pc = "done" /\ ~st.given
       /\ ForeachStream(specs) = {}
       /\ Cardinality(ForeachPlain(specs)) = 2
       /\ \A i \in ForeachPlain(specs) : Len(specs[i].value.items) = 2
       /\ \E i \in DOMAIN specs : ~specs[i].foreach
       /\ Len(Emitted(st, "fork")) = 4

(* C3: with exactly one foreach-stream input whose stream gives k messages  *)
(* and then the sentinel, and c combinations of the foreach-plain axes,     *)
(* invoke makes k+1 pulls and k*c forks; the sentinel is followed by no     *)
(* fork and no further request, and the generator is finished.              *)
C3_FanoutStream ==
    \A g \in Invocations :
       LET st == inv[g]
           specs == SpecsOf(g)
           forks == Len(Emitted(st, "fork"))
           pulls == Len(Emitted(st, "pull"))
           k == Cardinality(Pulled(st))
           c == Combinations(specs, Len(specs))
       IN (st.pc # "none" /\ ~st.given /\ Cardinality(ForeachStream(specs)) = 1)
          => /\ st.pc \in {"created", "get_stream", "get_logger", "pull",
                            "fork_stream", "done"}
             /\ st.pc = "pull"
                   => /\ pulls = k + 1 /\ forks = k * c
                      /\ st.out[Len(st.out)].type = "pull"
             /\ st.pc = "fork_stream"
                   => /\ pulls = k /\ (k - 1) * c < forks /\ forks <= k * c
             /\ st.pc = "done"
                   => /\ pulls = k + 1 /\ forks = k * c
                      /\ st.ins[Len(st.ins)] = NoneVal
                      /\ st.out[Len(st.out)].type = "pull"

C3_Witness ==
    LET st == inv[1]
        specs == SpecsOf(1)
    IN /\ st.pc = "done" /\ ~st.given
       /\ Cardinality(ForeachStream(specs)) = 1
       /\ Cardinality(Pulled(st)) = 2
       /\ Combinations(specs, Len(specs)) = 2
       /\ Len(Emitted(st, "pull")) = 3
       /\ Len(Emitted(st, "fork")) = 4

(* C6 as claimed: a node whose specs hold two or more foreach inputs bound  *)
(* to StreamSpecs is refused by its construction, so that no invocation of  *)
(* such a node ever issues a request.                                       *)
C6_RejectedAtConstruction ==
    /\ (result.op = "construct" /\ Cardinality(ForeachStream(result.specs)) >= 2)
          => result.status = "AssertionError"
    /\ \A g \in Invocations :
          (inv[g].pc # "none" /\ Cardinality(ForeachStream(SpecsOf(g))) >= 2)
             => inv[g].out = <<>>

(* C6 as amended: such a node is constructed like any other; an invocation  *)
(* of it without explicit inputs asks for the handle of each stream input   *)
(* and for the logger, then fails its assertion, and issues no pull and no  *)
(* fork.                                                                    *)
C6_RejectedAtInvocation ==
    /\ (result.op = "construct" /\ Cardinality(ForeachStream(result.specs)) >= 2)
          => result.status = "ok"
    /\ \A g \in Invocations :
          LET st == inv[g]
              specs == SpecsOf(g)
          IN (st.pc # "none" /\ ~st.given /\ Cardinality(ForeachStream(specs)) >= 2)
             => /\ st.pc \in {"created", "get_stream", "get_logger", "AssertionError"}
                /\ Emitted(st, "pull") = <<>>
                /\ Emitted(st, "fork") = <<>>
                /\ st.pc = "AssertionError"
                      => /\ Len(st.out) = Cardinality(Streams(specs)) + 1
                         /\ st.out[Len(st.out)].type = "get_logger"
                         /\ \A j \in 1..(Len(st.out) - 1) : st.out[j].type = "get_stream"

C6_Witness ==
    /\ inv[1].pc = "AssertionError"
    /\ ~inv[1].given
    /\ Cardinality(ForeachStream(SpecsOf(1))) = 2
    /\ Len(inv[1].out) = 3

(* C8: with explicit inputs, invoke makes no request of its own (no         *)
(* get_stream, get_logger, pull or fork), whatever inputs the node          *)
(* declares: its first step calls the user routine with exactly the inputs  *)
(* given, and from then on it relays.                                       *)
C8_ExplicitInputs ==
    \A g \in Invocations :
       LET st == inv[g]
       IN (st.pc # "none" /\ st.given)
          => /\ OwnRequests(st) = <<>>
             /\ st.pc \in {"created", "relay", "StopIteration"}
             /\ st.pc # "created"
                   => /\ st.gen.starts = 1
                      /\ st.gen.kwargs = Explicit(SpecsOf(g))

C8_Witness ==
    /\ inv[1].given
    /\ inv[1].pc = "relay"
    /\ Len(inv[1].out) = 2
    /\ ForeachStream(SpecsOf(1)) # {}
    /\ ForeachPlain(SpecsOf(1)) # {}
    /\ \E i \in DOMAIN SpecsOf(1) : ~SpecsOf(1)[i].foreach

---------------------------------------------------------------------------
(* The claims about the dependency graph. Membership is python's: x in S    *)
(* holds when S has an element equal to x, that is, of the key of x.        *)

In(n, S) == Member(heap, NodeKey(heap, n), S)

\* the nodes reached from the set S along deps, S included
RECURSIVE Closure(_, _)
Closure(h, S) ==
    LET T == S \cup UNION {h[x].deps : x \in S}
    IN IF T = S THEN S ELSE Closure(h, T)

\* the nodes reached from n through one or more deps edges
Reach(h, n) == Closure(h, h[n].deps)

\* the spec of the given name
SpecNamed(specs, name) == specs[CHOOSE i \in DOMAIN specs : specs[i].name = name]

(* C4: no node is a member of its own deps, alldeps, consumers or dependent. *)
C4_NoSelfEdge ==
    \A n \in DOMAIN heap :
       /\ ~In(n, heap[n].deps)
       /\ ~In(n, heap[n].alldeps)
       /\ ~In(n, heap[n].consumers)
       /\ ~In(n, heap[n].dependent)

C4_Witness ==
    /\ result.op = "clone"
    /\ \E n \in Built(heap) :
          /\ heap[n].deps # {} /\ heap[n].alldeps # heap[n].deps
          /\ heap[n].consumers # {} /\ heap[n].dependent # {}

\* the construction of Node(func, specs=specs) from heap h meets an edge
\* that is already there: the node, by its key, is a consumer of one of its
\* deps or a dependent of one of its alldeps
ReRegisters(h, func, specs) ==
    LET key == [hash |-> genhash(h, specs), fullname |-> <<Namespace, func>>]
        deps == Deps(h, specs)
    IN \/ \E d \in deps : Member(h, key, h[d].consumers)
       \/ \E S \in AllDepsChoices(h, deps) : \E d \in S : Member(h, key, h[d].dependent)

C5_Once ==
    \A n \in Built(heap) :
       /\ \A d \in heap[n].deps :
             /\ n \in heap[d].consumers
             /\ Cardinality({m \in heap[d].consumers :
                                NodeKey(heap, m) = NodeKey(heap, n)}) = 1
       /\ \A d \in heap[n].alldeps :
             /\ n \in heap[d].dependent
             /\ Cardinality({m \in heap[d].dependent :
                                NodeKey(heap, m) = NodeKey(heap, n)}) = 1

C5_Fails ==
    (result'.op \in {"construct", "clone"}
       /\ ReRegisters(heap, result'.func, result'.specs))
    => /\ result'.status = "AssertionError"
       /\ result'.node = 0

(* C5: every node that depends on a node is in that node's consumers        *)
(* (dependent) exactly once, however many nodes depend on it; and a         *)
(* construction that meets an edge already registered for its key fails.    *)
C5_DuplicateEdge == []C5_Once /\ [][C5_Fails]_vars

C5_Witness ==
    /\ result.op = "construct"
    /\ result.status = "AssertionError"
    /\ ReRegisters(heap, result.func, result.specs)
    /\ \E d \in Built(heap) :
          /\ Cardinality(heap[d].consumers) = 2
          /\ Cardinality(heap[d].dependent) = 2

C7_Step ==
    LET r == result'
    IN r.op = "clone"
       => /\ heap'[r.src].specs = heap[r.src].specs
          /\ heap'[r.src].specs_hash = heap[r.src].specs_hash
          /\ heap'[r.src].deps = heap[r.src].deps
          /\ r.status = "ok"
                => LET old == heap[r.src].specs
                       new == heap'[r.node].specs
                   IN /\ r.node \notin DOMAIN heap
                      /\ {new[i].name : i \in DOMAIN new} = {old[i].name : i \in DOMAIN old}
                      /\ Len(new) = Len(old)
                      /\ \A i \in DOMAIN old :
                            old[i].name \notin r.over
                            => SpecKey(heap', SpecNamed(new, old[i].name))
                                  = SpecKey(heap, old[i])
                      /\ (\E i \in DOMAIN old :
                             /\ old[i].name \in r.over
                             /\ SpecKey(heap', SpecNamed(new, old[i].name))
                                   # SpecKey(heap, old[i]))
                            => NodeKey(heap', r.node) # NodeKey(heap, r.src)

(* C7: a clone with an override is a new Node whose identity differs from   *)
(* the original's whenever the overridden spec's key differs, whose other   *)
(* specs have the keys of the original's, and the original's specs,         *)
(* specs_hash and deps stay as they were.                                   *)
C7_CloneIsolation == [][C7_Step]_vars

C7_Witness ==
    /\ result.op = "clone"
    /\ result.status = "ok"
    /\ result.over # {}
    /\ Len(heap[result.src].specs) = 2
    /\ heap[result.src].deps # {}
    /\ NodeKey(heap, result.node) # NodeKey(heap, result.src)

(* C9 as claimed: B is in A.consumers exactly when A is in B.deps, and B is *)
(* in A.dependent exactly when A is in B.alldeps, for all nodes A and B.    *)
C9_Inverse ==
    \A a, b \in Built(heap) :
       /\ In(b, heap[a].consumers) <=> In(a, heap[b].deps)
       /\ In(b, heap[a].dependent) <=> In(a, heap[b].alldeps)

(* What does hold of C9: if B is in A.consumers then A is in B.deps, and B  *)
(* is in the consumers of every node object held in B.deps; the same of     *)
(* dependent and alldeps. A node that only equals a member of B.deps, a     *)
(* second object of the same key, does not have B among its consumers.      *)
C9_InverseOfHeld ==
    \A a, b \in Built(heap) :
       /\ In(b, heap[a].consumers) => In(a, heap[b].deps)
       /\ In(b, heap[a].dependent) => In(a, heap[b].alldeps)
       /\ a \in heap[b].deps => In(b, heap[a].consumers)
       /\ a \in heap[b].alldeps => In(b, heap[a].dependent)

C9_EqualNodes ==
    \E a, a2, b \in Built(heap) :
       /\ a # a2 /\ NodeKey(heap, a) = NodeKey(heap, a2)
       /\ a \in heap[b].deps /\ In(a2, heap[b].deps)
       /\ In(b, heap[a].consumers) /\ ~In(b, heap[a2].consumers)
       /\ \E c \in Built(heap) : b \in heap[c].deps /\ In(c, heap[a].dependent)

(* C10: the alldeps of every node are the nodes reached from it through one *)
(* or more deps edges, and nothing else.                                    *)
C10_AllDepsClosure ==
    \A n \in Built(heap) :
       /\ heap[n].alldeps \subseteq Reach(heap, n)
       /\ \A x \in Reach(heap, n) : In(x, heap[n].alldeps)

C10_Witness ==
    \E n \in Built(heap) :
       /\ Cardinality(heap[n].deps) = 2
       /\ Cardinality(heap[n].alldeps) = 3
       /\ \E d \in heap[n].deps : heap[d].deps # {}

\* what a reference to node d brings into alldeps: d and the alldeps of d
Holds(h, d) == {d} \cup h[d].alldeps

\* the nodes the specs reach through two of their inputs
SharedDeps(h, specs) ==
    {x \in DOMAIN h :
        \E i, j \in DOMAIN specs :
           /\ i # j
           /\ specs[i].value.kind = "stream" /\ specs[j].value.kind = "stream"
           /\ x \in Holds(h, specs[i].value.node) \cap Holds(h, specs[j].value.node)}

\* node n is in the set S once
Once(h, n, S) ==
    /\ n \in S
    /\ Cardinality({m \in S : NodeKey(h, m) = NodeKey(h, n)}) = 1

C20_Step ==
    LET r == result'
    IN (/\ r.op \in {"construct", "clone"}
        /\ SharedDeps(heap, r.specs) # {}
        /\ ~ReRegisters(heap, r.func, r.specs))
       => /\ r.status = "ok"
          /\ \A x \in SharedDeps(heap, r.specs) :
                \E y \in heap'[r.node].alldeps :
                   /\ NodeKey(heap, y) = NodeKey(heap, x)
                   /\ Once(heap', r.node, heap'[y].dependent)
                   /\ y \in heap'[r.node].deps
                         => Once(heap', r.node, heap'[y].consumers)
                   /\ y \notin heap'[r.node].deps => r.node \notin heap'[y].consumers

(* C20: the construction of a node that reaches a node through two of its   *)
(* inputs (a diamond, or two inputs bound to one node) succeeds unless its  *)
(* key is already registered, and the node is then once in the dependent    *)
(* set, and once in the consumers if it is a direct dependency, of the      *)
(* shared node that its alldeps hold.                                       *)
C20_SharedDependency == [][C20_Step]_vars

C20_Witness ==
    /\ result.op = "construct"
    /\ result.status = "ok"
    /\ LET d == result.node
       IN /\ Cardinality(heap[d].deps) = 2
          /\ \E a \in heap[d].alldeps \ heap[d].deps :
                /\ \A b \in heap[d].deps : heap[b].deps = {a}
                /\ heap[a].consumers = heap[d].deps
                /\ heap[a].dependent = heap[d].deps \cup {d}

C20_TwoInputs ==
    /\ result.op = "construct"
    /\ result.status = "ok"
    /\ Len(result.specs) = 2
    /\ result.specs[1].value = result.specs[2].value
    /\ result.specs[1].value.kind = "stream"
    /\ heap[result.specs[1].value.node].consumers = {result.node}

---------------------------------------------------------------------------
(* The claims about the identity. *)

\* two dicts hold sets of InputSpecs that are equal by key
EqualByKey(h, s1, s2) ==
    /\ \A i \in DOMAIN s1 : \E j \in DOMAIN s2 :
          SpecKeyEq(SpecKey(h, s1[i]), SpecKey(h, s2[j]))
    /\ \A j \in DOMAIN s2 : \E i \in DOMAIN s1 :
          SpecKeyEq(SpecKey(h, s1[i]), SpecKey(h, s2[j]))

(* C11 as claimed: genhash gives the same identity for any two sets of      *)
(* InputSpecs that are equal by key, in whatever order they are stored.     *)
C11_EqualByKey ==
    result.op = "genhash"
    => \A other \in HashSpecs :
          EqualByKey(heap, result.specs, other)
          => genhash(heap, other) = result.hash

(* C11 as amended: genhash gives the same identity for the same InputSpecs  *)
(* (the same names and flags, and values that repr writes the same) stored  *)
(* in any order.                                                            *)
C11_AnyOrder ==
    result.op = "genhash"
    => \A other \in DictOrders(result.specs) :
          genhash(heap, other) = result.hash

C11_Witness ==
    /\ result.op = "genhash"
    /\ Len(result.specs) = 2
    /\ KeyedLess(result.specs[2], result.specs[1])
    /\ result.specs[1].value.kind = "stream"
    /\ result.hash = genhash(heap, <<result.specs[2], result.specs[1]>>)

---------------------------------------------------------------------------
(* The claims about clone and input. *)

C12_Step ==
    LET r == result'
    IN (/\ r.op = "clone"
        /\ \E name \in r.over :
              \A i \in DOMAIN heap[r.src].specs : heap[r.src].specs[i].name # name)
       => /\ r.status = "AssertionError"
          /\ r.node = 0
          /\ heap' = heap

(* C12: a clone with a keyword that names no InputSpec of the node fails,   *)
(* constructs no Node, and leaves the deps, alldeps, consumers and          *)
(* dependent of every node as they were.                                    *)
C12_CloneUnknownKeyword == [][C12_Step]_vars

C12_Witness ==
    /\ result.op = "clone"
    /\ result.status = "AssertionError"
    /\ Len(heap) = result.before
    /\ \E name \in result.over :
          \A i \in DOMAIN heap[result.src].specs : heap[result.src].specs[i].name # name
    /\ \E name \in result.over :
          \E i \in DOMAIN heap[result.src].specs : heap[result.src].specs[i].name = name
    /\ \E d \in heap[result.src].deps : heap[d].consumers # {}

C13_Step ==
    LET r == result'
    IN (/\ r.op = "input"
        /\ r.specs # <<>>
        /\ \E i \in DOMAIN input_specs[r.func] :
              input_specs[r.func][i].name = r.specs[1].name)
       => /\ r.status = "InputNameCollision"
          /\ input_specs' = input_specs

(* C13: applying input(name, ...) to a function that already has a spec of  *)
(* that name fails with InputNameCollision, and the specs declared on the   *)
(* function stay as they were.                                              *)
C13_InputNameCollision == [][C13_Step]_vars

C13_Witness ==
    /\ result.op = "input"
    /\ result.status = "InputNameCollision"
    /\ Len(input_specs[result.func]) = 2
    /\ input_specs[result.func][1].name = result.specs[1].name
    /\ input_specs[result.func][1] # result.specs[1]
    /\ \E func \in InputFuncs :
          /\ func # result.func
          /\ \A i \in DOMAIN input_specs[func] :
                input_specs[func][i].name # result.specs[1].name

---------------------------------------------------------------------------
(* The claims about the order and the bindings of the requests. *)

\* the number of combinations of the foreach-plain axes declared after spec i
RECURSIVE Stride(_, _)
Stride(specs, i) ==
    IF i >= Len(specs) THEN 1
    ELSE (IF (i + 1) \in ForeachPlain(specs) THEN Len(specs[i + 1].value.items) ELSE 1)
         * Stride(specs, i + 1)

\* the element of the axis of the foreach-plain spec i in the q-th
\* combination, q from 0, of the cross product: the last axis varies fastest
ElementOf(specs, i, q) ==
    PlainValue(specs[i].value.items[((q \div Stride(specs, i))
                                        % Len(specs[i].value.items)) + 1])

\* the position in out of the first pull
FirstPull(st) == CHOOSE p \in DOMAIN st.out :
                    st.out[p].type = "pull" /\ \A q \in 1..(p - 1) : st.out[q].type # "pull"

(* C14: in Fanout-Stream every pull is followed by one fork per combination *)
(* before the next pull; the forks of one pulled value run through the      *)
(* combinations in cross-product order and bind the stream input to the     *)
(* value that pull returned; the labels are 0, 1, 2, ... over all forks of  *)
(* the invocation.                                                          *)
C14_StreamForkOrder ==
    \A g \in Invocations :
       LET st == inv[g]
           specs == SpecsOf(g)
           c == Combinations(specs, Len(specs))
       IN (st.pc # "none" /\ ~st.given /\ Cardinality(ForeachStream(specs)) = 1
              /\ Emitted(st, "pull") # <<>>)
          => LET base == FirstPull(st)
                 s == CHOOSE i \in DOMAIN specs : i \in ForeachStream(specs)
             IN \A p \in base..Len(st.out) :
                   LET m == (p - base) \div (c + 1)
                       q == (p - base) % (c + 1)
                       r == st.out[p]
                   IN IF q = 0
                      THEN r.type = "pull"
                      ELSE /\ r.type = "fork"
                           /\ r.label = ToString(m * c + q - 1)
                           /\ st.out[p - q].type = "pull"
                           /\ r.inputs[specs[s].name] = st.ins[p - q + 1]
                           /\ st.ins[p - q + 1].kind = "msg"
                           /\ \A i \in ForeachPlain(specs) :
                                 r.inputs[specs[i].name] = ElementOf(specs, i, q - 1)

C14_Witness ==
    LET st == inv[1]
        specs == SpecsOf(1)
    IN /\ st.pc = "done" /\ ~st.given
       /\ Cardinality(ForeachStream(specs)) = 1
       /\ Cardinality(ForeachPlain(specs)) = 2
       /\ Combinations(specs, Len(specs)) = 4
       /\ Len(Emitted(st, "fork")) = 8
       /\ Emitted(st, "fork")[8].label = "7"
       /\ Emitted(st, "fork")[5].inputs # Emitted(st, "fork")[1].inputs

(* C15: an invocation without explicit inputs of a node with a foreach      *)
(* input never calls the user routine and emits only get_stream,            *)
(* get_logger, pull and fork requests of its own; with an empty             *)
(* foreach-plain axis it emits no fork, and with a foreach-stream input it  *)
(* goes on pulling until the sentinel.                                      *)
C15_FanoutDecision ==
    \A g \in Invocations :
       LET st == inv[g]
           specs == SpecsOf(g)
           c == Combinations(specs, Len(specs))
       IN (st.pc # "none" /\ ~st.given
              /\ ForeachPlain(specs) \cup ForeachStream(specs) # {})
          => /\ st.gen.starts = 0
             /\ st.gen = NoGen
             /\ st.pc \notin {"relay", "StopIteration"}
             /\ \A p \in DOMAIN st.out :
                   /\ st.out[p].origin = "invoke"
                   /\ st.out[p].type \in {"get_stream", "get_logger", "pull", "fork"}
             /\ c = 0
                   => /\ Emitted(st, "fork") = <<>>
                      /\ Cardinality(ForeachStream(specs)) = 1
                            => /\ st.pc \in {"created", "get_stream", "get_logger",
                                              "pull", "done"}
                               /\ Len(Emitted(st, "pull")) \in
                                     {Cardinality(Pulled(st)), Cardinality(Pulled(st)) + 1}
                               /\ st.pc = "done" => st.ins[Len(st.ins)] = NoneVal
                               /\ (st.pc = "pull" /\ Len(Emitted(st, "pull")) > 1)
                                     => st.ins[Len(st.ins)].kind = "msg"
                      /\ ForeachStream(specs) = {}
                            => st.pc \in {"created", "get_stream", "get_logger", "done"}

C15_Witness ==
    LET st == inv[1]
        specs == SpecsOf(1)
    IN /\ st.pc = "done" /\ ~st.given
       /\ Cardinality(ForeachStream(specs)) = 1
       /\ \E i \in ForeachPlain(specs) : specs[i].value.items = <<>>
       /\ \E i \in ForeachPlain(specs) : specs[i].value.items # <<>>
       /\ Cardinality(Pulled(st)) = 2
       /\ Len(Emitted(st, "pull")) = 3
       /\ Emitted(st, "fork") = <<>>

\* the specs bound to a StreamSpec, in the order of self.specs.values()
StreamSpecs(specs) == SelectSeq(specs, LAMBDA x : x.value.kind = "stream")

(* C16: an invocation without explicit inputs first asks for the handle of  *)
(* every input bound to a StreamSpec, once each, before any other request;  *)
(* with a foreach input it then asks once for the logger, before every pull *)
(* and fork; without a foreach input it makes no get_logger, pull or fork.  *)
C16_RequestOrder ==
    \A g \in Invocations :
       LET st == inv[g]
           specs == SpecsOf(g)
           streams == StreamSpecs(specs)
           n == Len(streams)
           foreach == ForeachPlain(specs) \cup ForeachStream(specs) # {}
       IN (st.pc # "none" /\ ~st.given)
          => /\ \A p \in DOMAIN st.out :
                   /\ p <= n <=> st.out[p].type = "get_stream"
                   /\ p <= n => st.out[p].args = StreamArgs(streams[p].value)
                   /\ st.out[p].type = "get_logger" <=> (foreach /\ p = n + 1)
                   /\ st.out[p].type \in {"pull", "fork"} => (foreach /\ p > n + 1)
             /\ st.pc \notin {"created", "get_stream"} => Len(st.out) >= n
             /\ (foreach /\ st.pc \notin {"created", "get_stream"})
                   => Len(Emitted(st, "get_logger")) = 1
             /\ ~foreach
                   => \A p \in DOMAIN st.out :
                         st.out[p].origin = "invoke" => st.out[p].type = "get_stream"

C16_Witness ==
    LET st == inv[1]
        specs == SpecsOf(1)
    IN /\ st.pc = "done" /\ ~st.given
       /\ Len(StreamSpecs(specs)) = 2
       /\ Cardinality(ForeachStream(specs)) = 1
       /\ Cardinality(ForeachPlain(specs)) = 1
       /\ \E i \in DOMAIN specs : ~specs[i].foreach /\ specs[i].value.sname = "s"
       /\ Len(Emitted(st, "fork")) = 2
       /\ Len(Emitted(st, "pull")) = 2

(* C17: while the user routine runs, the requests invoke emits are the      *)
(* requests the routine yields, in their order; the routine is started with *)
(* None, and the answer of the driver to the k-th of these requests is the  *)
(* value the routine is resumed with after its k-th request.                *)
C17_RelayTransparency ==
    \A g \in Invocations :
       LET st == inv[g]
           own == Len(OwnRequests(st))
       IN PlainExecuting(st)
          => /\ st.gen.starts = 1
             /\ \A p \in DOMAIN st.out : p <= own <=> st.out[p].origin = "invoke"
             /\ SubSeq(st.out, own + 1, Len(st.out)) = st.gen.reqs
             /\ st.gen.sent[1] = NoneVal
             /\ Len(st.gen.sent) = Len(st.ins) - own
             /\ \A k \in 1..(Len(st.gen.sent) - 1) :
                   /\ st.gen.sent[k + 1] = st.ins[own + k + 1]
                   /\ st.gen.sent[k + 1] = Answer(k)
             /\ st.pc = "relay" => Len(st.gen.sent) = Len(st.gen.reqs)
             /\ st.pc # "relay" => Len(st.gen.sent) = Len(st.gen.reqs) + 1

C17_Witness ==
    LET st == inv[1]
    IN /\ st.pc = "StopIteration"
       /\ ~st.given
       /\ Len(OwnRequests(st)) = 2
       /\ Len(st.gen.reqs) = 2
       /\ st.gen.sent = <<NoneVal, Answer(1), Answer(2)>>

(* C19: every fork carries a binding for each declared input name and for  *)
(* no other name: a foreach-plain input is bound to an element of its axis, *)
(* the foreach-stream input to a pulled message, every other input to its   *)
(* plain value or to the handle of its stream.                              *)
C19_ForkBindings ==
    \A g \in Invocations :
       LET st == inv[g]
           specs == SpecsOf(g)
       IN st.pc # "none"
          => \A p \in DOMAIN st.out :
                st.out[p].type = "fork"
                => LET inputs == st.out[p].inputs
                   IN /\ DOMAIN inputs = {specs[i].name : i \in DOMAIN specs}
                      /\ \A i \in DOMAIN specs :
                            LET value == inputs[specs[i].name]
                            IN IF i \in ForeachPlain(specs)
                               THEN \E j \in DOMAIN specs[i].value.items :
                                       value = PlainValue(specs[i].value.items[j])
                               ELSE IF i \in ForeachStream(specs)
                               THEN /\ value.kind = "msg"
                                    /\ \E q \in 1..(p - 1) :
                                          /\ st.out[q].type = "pull"
                                          /\ st.ins[q + 1] = value
                                          /\ \A q2 \in (q + 1)..(p - 1) :
                                                st.out[q2].type # "pull"
                               ELSE value = CommonBinding(specs[i])

C19_Witness ==
    LET st == inv[1]
        specs == SpecsOf(1)
    IN /\ st.pc = "fork_stream"
       /\ Len(specs) = 3
       /\ Cardinality(ForeachStream(specs)) = 1
       /\ Cardinality(ForeachPlain(specs)) = 1
       /\ \E i \in DOMAIN specs : ~specs[i].foreach /\ specs[i].value.kind = "stream"
       /\ Len(Emitted(st, "fork")) = 3
       /\ Cardinality(DOMAIN st.out[Len(st.out)].inputs) = 3

C19_PlainWitness ==
    LET st == inv[1]
        specs == SpecsOf(1)
    IN /\ st.pc = "fork_plain"
       /\ Len(specs) = 3
       /\ Cardinality(ForeachPlain(specs)) = 2
       /\ \E i \in DOMAIN specs : ~specs[i].foreach /\ specs[i].value.kind = "plain"
       /\ Cardinality(DOMAIN st.out[Len(st.out)].inputs) = 3

---------------------------------------------------------------------------
(* The claim about concurrent invocations. *)

\* one resume of a generator of invoke that runs on its own: the value is
\* sent in, and the routine, when it is resumed, yields or returns
StepAlone(specs, st, value, step) ==
    CASE st.pc = "created" -> FirstNext(specs, Sent(st, value), step)
      [] st.pc = "get_stream" -> AfterGetStream(specs, Sent(st, value), value, step)
      [] st.pc = "get_logger" -> AfterGetLogger(Sent(st, value), value)
      [] st.pc = "pull" -> AfterPull(Sent(st, value), value)
      [] st.pc = "fork_stream" -> AfterStreamFork(Sent(st, value))
      [] st.pc = "fork_plain" -> AfterPlainFork(Sent(st, value))
      [] st.pc = "relay" -> Relay(Sent(st, value), value, step)
      [] OTHER -> st

\* the generator run on its own from st with the values ins[j], ins[j+1],
\* ... sent in, the routine yielding nreq requests before it returns
RECURSIVE RunAlone(_, _, _, _, _)
RunAlone(specs, st, ins, j, nreq) ==
    IF j > Len(ins) THEN st
    ELSE RunAlone(specs,
                  StepAlone(specs, st, ins[j],
                            IF Len(st.gen.reqs) < nreq THEN "yield" ELSE "return"),
                  ins, j + 1, nreq)

\* the generator object as node.invoke(inputs) makes it
Created(st) ==
    [NoInvocation EXCEPT !.pc = "created", !.self = st.self, !.given = st.given,
                         !.inputs = IF st.given THEN Explicit(heap[st.self].specs)
                                    ELSE EmptyDict]

C18_AsAlone ==
    \A g \in Invocations :
       inv[g].pc # "none"
       => LET alone == RunAlone(SpecsOf(g), Created(inv[g]), inv[g].ins, 1,
                                Len(inv[g].gen.reqs))
          IN /\ inv[g].out = alone.out
             /\ inv[g].pc = alone.pc

C18_NoWrite == (inv' # inv) => (heap' = heap /\ input_specs' = input_specs)

(* C18: invoke writes no state of the node, and however the steps of two    *)
(* invocations of one node are interleaved, each emits the requests, labels *)
(* and bindings included, that it emits when it runs alone and is sent the  *)
(* same values.                                                             *)
C18_InvocationIsolation == []C18_AsAlone /\ [][C18_NoWrite]_vars

C18_Witness ==
    /\ inv[1].self = inv[2].self
    /\ ~inv[1].given /\ ~inv[2].given
    /\ inv[1].pc = "fork_stream" /\ inv[2].pc = "done"
    /\ Len(Emitted(inv[1], "fork")) = 2
    /\ Len(Emitted(inv[2], "fork")) = 4
    /\ Len(inv[1].cross) = 2

====
